---- MODULE Spec2Model ----
(***************************************************************************)
(* A model of pantalaimon's ProxyDaemon (src/pantalaimon/daemon.py): the   *)
(* filter sanitizer, the control-message handler, the session manager with *)
(* the request handlers' authentication, and the decryption coordinator.   *)
(***************************************************************************)
EXTENDS Integers, Sequences, FiniteSets, TLC

(***************************************************************************)
(* Bounds of the model.                                                    *)
(***************************************************************************)
MaxLen == 2          \* longest types / not_types list of a filter
MaxClients == 3      \* shadow-client objects constructed in one process lifetime
MaxMsgs == 2         \* control messages the UI sends (message_ids 1..MaxMsgs)
MaxQueue == 1        \* control messages waiting in the input queue
MaxHandlers == 2     \* login handlers in flight at the same time
MaxCalls == 2        \* decrypt_body calls on one shadow client
MaxEdges == 2        \* sync cycles the shadow client completes

(***************************************************************************)
(* Generic helpers.                                                        *)
(***************************************************************************)
Range(s) == {s[i] : i \in DOMAIN s}

SeqsUpTo(S, n) == UNION {[1..k -> S] : k \in 0..n}

\* Python truthiness of a dict or a list: empty containers are falsy.
Truthy(v) == v # <<>>

\* list.remove(x): removes the FIRST occurrence of x (ValueError when absent,
\* which sanitize_filter swallows, leaving the list as it was).
RECURSIVE ListRemove(_, _)
ListRemove(s, x) ==
    IF s = <<>> THEN <<>>
    ELSE IF Head(s) = x THEN Tail(s)
    ELSE <<Head(s)>> \o ListRemove(Tail(s), x)

(***************************************************************************)
(* Filter sanitizer (sanitize_filter).                                     *)
(* A JSON object is a function from its keys; an absent key is absent from *)
(* the DOMAIN, {} and [] are both the empty function <<>>.                 *)
(***************************************************************************)
Encrypted == "m.room.encrypted"
EventTypes == {"m.room.message", Encrypted}

TypeLists == SeqsUpTo(EventTypes, MaxLen)

TimelineFilters ==
    {<<>>}
    \cup {[types |-> t] : t \in TypeLists}
    \cup {[not_types |-> n] : n \in TypeLists}
    \cup {[types |-> t, not_types |-> n] : t \in TypeLists, n \in TypeLists}

RoomFilters == {<<>>} \cup {[timeline |-> tl] : tl \in TimelineFilters}

Filters == {<<>>} \cup {[room |-> r] : r \in RoomFilters}

\* dict.get(key, None) followed by the truthiness test of the code
HasTruthy(d, key) == key \in DOMAIN d /\ Truthy(d[key])

\* lines 244-248: append "m.room.encrypted" to a truthy types list lacking it
SanitizeTypes(tl) ==
    IF HasTruthy(tl, "types") /\ Encrypted \notin Range(tl.types)
    THEN [tl EXCEPT !.types = Append(@, Encrypted)]
    ELSE tl

\* lines 250-256: remove "m.room.encrypted" from a truthy not_types list
SanitizeNotTypes(tl) ==
    IF HasTruthy(tl, "not_types")
    THEN [tl EXCEPT !.not_types = ListRemove(@, Encrypted)]
    ELSE tl

sanitize_filter(sync_filter) ==
    IF HasTruthy(sync_filter, "room") /\ HasTruthy(sync_filter.room, "timeline")
    THEN [sync_filter EXCEPT !.room.timeline = SanitizeNotTypes(SanitizeTypes(@))]
    ELSE sync_filter

\* The paths the claims speak about.
HasTimelineKey(f, key) ==
    /\ "room" \in DOMAIN f
    /\ "timeline" \in DOMAIN f.room
    /\ key \in DOMAIN f.room.timeline

VARIABLES
    fpc,            \* position of the sanitizer run: "input", "once", "twice"
    filter_in,      \* the filter object handed to sanitize_filter
    filter_out,     \* sanitize_filter(filter_in)
    filter_out2,    \* sanitize_filter(filter_out)
    tpc,            \* position of the get_access_token run: "input", "done"
    token_req,      \* the request handed to get_access_token
    token_out       \* get_access_token(token_req)

tokenVars == <<tpc, token_req, token_out>>

filterVars == <<fpc, filter_in, filter_out, filter_out2, tokenVars>>

\* No request has been handed to get_access_token.
TokenIdle ==
    /\ tpc = "input"
    /\ token_req = [query |-> <<>>, auth |-> <<>>]
    /\ token_out = <<>>

FilterIdle ==
    /\ fpc = "input"
    /\ filter_in = <<>>
    /\ filter_out = <<>>
    /\ filter_out2 = <<>>
    /\ TokenIdle

(***************************************************************************)
(* Session tables of the ProxyDaemon and the shadow clients (PanClient).   *)
(***************************************************************************)
UserSeq == <<"@alice:h", "@bob:h">>
Users == Range(UserSeq)

ClientIds == 1..MaxClients
NoClient == 0

DeviceNames == {"X"}
DevKeys == Users \X DeviceNames        \* (user_id, device_id) of a device

NoUser == ""

\* Access tokens are strings, modelled as sequences of characters.
\* DownTokenSeq are the tokens the homeserver issues to downstream logins, in
\* the order it issues them: each login gets a token never issued before.
DownTokenSeq == << <<"T">>, <<"a", "T">>, <<"S">> >>
DownTokens == Range(DownTokenSeq)

VARIABLES
    pan_clients,    \* self.pan_clients: user_id -> shadow client (NoClient: no key)
    clients,        \* the PanClient objects: state, user_id, device_id, access_token
    device_store,   \* each PanClient's device store: DevKeys -> verification state
    client_info,    \* self.client_info: access_token -> user_id (NoUser: no key)
    store_clients,  \* PanStore: the persisted (access_token, user_id) rows
    store_users,    \* PanStore: the persisted server users
    accounts,       \* the persisted (user_id, device_id) accounts of the SDK store
    keyring,        \* keyring service "pantalaimon": (user_id, device_id) -> token
    default_session,\* self.default_session: "none" | "open"
    login_task,     \* the login handlers in flight
    issued,         \* how many downstream tokens the homeserver has issued
    relayed,        \* the (access_token, user_id) of the logins that returned
    http_resp,      \* the last response a request handler returned
    shut_down       \* shutdown has run to its end in this process

NoClientObj == [state |-> "free", user |-> "", device |-> 0, token |-> <<>>]

(***************************************************************************)
(* Control messages (thread_messages) and the control-message handler.     *)
(***************************************************************************)
VerifyTypes == {"DeviceVerify", "DeviceUnverify"}
SasTypes == {"AcceptSas", "ConfirmSas"}
KeyFileTypes == {"ExportKeys", "ImportKeys"}

NoKey == <<"", "">>

\* The fields receive_message reads: the variant, message_id, pan_user and,
\* for the device messages, (user_id, device_id).
Messages(mid) ==
    {[type |-> t, message_id |-> mid, pan_user |-> p, dev |-> k] :
        t \in VerifyTypes, p \in Users, k \in DevKeys}
    \cup {[type |-> t, message_id |-> mid, pan_user |-> p, dev |-> NoKey] :
        t \in SasTypes \cup KeyFileTypes, p \in Users}

VARIABLES
    recv_queue,     \* control messages sent by the UI, not yet consumed
    send_queue,     \* the DaemonResponses put on the output queue
    next_mid,       \* the next message_id the UI uses
    ctl_done,       \* message_id -> "none" | "returned" | "raised"
    last_ctl        \* what handling the last consumed message did

sessionVars == <<pan_clients, clients, client_info, store_clients, store_users,
                 accounts, keyring, default_session, login_task, issued, relayed,
                 http_resp, shut_down>>
ctlVars == <<device_store, recv_queue, send_queue, next_mid, ctl_done, last_ctl>>

(***************************************************************************)
(* State of the decryption coordinator (decrypt_body) and of the shadow    *)
(* client it decrypts with.                                                *)
(***************************************************************************)
VARIABLES
    client_keys,    \* the megolm keys the shadow client holds
    edges,          \* how often the shadow client has fired "synced"
    dec_call        \* the decrypt_body calls of the Sync / Messages handlers

decVars == <<client_keys, edges, dec_call>>

vars == <<filterVars, sessionVars, ctlVars, decVars>>

\* Events are named by the megolm key that decrypts them.
Keys == {"k1", "k2"}

\* A decrypt_body call: where it stands, the encrypted events of its body,
\* how many strict and lenient decryptions it has made, whether wait_for
\* timed out, whether a "synced" edge that brought every missing key fired
\* while it waited, and what it returned (the events in plaintext and those
\* still encrypted, the decryption that produced them and, for the lenient
\* one, the keys held then) with the status of the handler's response;
\* edges_seen counts the "synced" edges fired while the call was waiting.
NoCall == [pc |-> "idle", body |-> {}, strict |-> 0, lenient |-> 0,
           timed_out |-> FALSE, key_edge |-> FALSE, status |-> 0, via |-> "",
           plain |-> {}, encrypted |-> {}, held |-> {}, edges_seen |-> 0]

DecryptIdle ==
    /\ client_keys = {}
    /\ edges = 0
    /\ dec_call = [h \in 1..MaxCalls |-> NoCall]

LoginIdle == [pc |-> "idle", user_id |-> NoUser, access_token |-> <<>>,
              client |-> NoClient, existing |-> NoClient]

\* A downstream request: its access_token query parameter and its
\* Authorization header, "" (here <<>>) when absent.
NoReq == [query |-> <<>>, auth |-> <<>>]

\* What a request handler did: the response it returned (status 0: the
\* upstream response relayed with its own status), whether the downstream
\* token was in client_info when the handler ran, and what it sent upstream
\* (via: "none", "forward" with the request sent, or "room_send"); for Send
\* also what client.rooms holds for the room and whether the body is JSON.
Resp(kind, req, known, status, errcode, via, sent) ==
    [kind |-> kind, req |-> req, known |-> known, status |-> status,
     errcode |-> errcode, via |-> via, sent |-> sent, room |-> "", body |-> "",
     raised |-> FALSE]

\* The handler did not return resp: it ended with an exception it does not
\* catch.
Raised(resp) == [resp EXCEPT !.raised = TRUE]

\* The bodies a handler may be given: JSON holding an object, JSON holding
\* something else (an array such as [1], a string, a number), and no JSON.
Bodies == {"json", "json_no_object", "not_json"}

\* The response of a Send handler that got as far as the room lookup.
SendResp(resp, room, body) == [resp EXCEPT !.room = room, !.body = body]

LoginResp(status, errcode) ==
    Resp("login", NoReq, FALSE, status, errcode, "forward", NoReq)

NoResp == Resp("", NoReq, FALSE, 0, "", "none", NoReq)

\* The session state other than the shadow-client table: nothing persisted,
\* no handler in flight.
SessionRestEmpty ==
    /\ client_info = [t \in DownTokens |-> NoUser]
    /\ store_clients = [t \in DownTokens |-> NoUser]
    /\ store_users = {}
    /\ accounts = {}
    /\ keyring = <<>>
    /\ default_session = "none"
    /\ login_task = [h \in 1..MaxHandlers |-> LoginIdle]
    /\ issued = 0
    /\ relayed = {}
    /\ http_resp = NoResp
    /\ shut_down = FALSE

DaemonResponse(message_id, pan_user, code) ==
    [message_id |-> message_id, pan_user |-> pan_user, code |-> code]

NoCtl == [msg |-> <<>>, client |-> NoClient, device |-> "", sdk_verify |-> 0,
          emitted |-> <<>>, store_changed |-> FALSE]

\* receive_message without the "if not device" test of lines 137-147.
ReceiveOutcome_NoDeviceTest(message, io) ==
    LET client == pan_clients[message.pan_user]
        to == IF message.type = "DeviceVerify" THEN "verified" ELSE "unverified"
    IN
    IF client # NoClient /\ message.type \in VerifyTypes
    THEN [raised |-> FALSE,
          emitted |-> <<DaemonResponse(message.message_id, clients[client].user,
                                       "m.ok")>>,
          store |-> [device_store EXCEPT ![client][message.dev] = to],
          sdk_verify |-> 1]
    ELSE [raised |-> client = NoClient, emitted |-> <<>>, store |-> device_store,
          sdk_verify |-> 0]

\* What one call of receive_message does, as
\* [raised, emitted (responses, in order), store (the device stores after),
\*  sdk_verify (calls of client.verify_device / unverify_device)].
\* io is the outcome of the key export / import of the SDK.
ReceiveOutcome(message, io) ==
    LET client == pan_clients[message.pan_user]      \* line 125, None when absent
        raised == [raised |-> TRUE, emitted |-> <<>>, store |-> device_store,
                   sdk_verify |-> 0]
        done(resp, store, n) ==
            [raised |-> FALSE, emitted |-> resp, store |-> store, sdk_verify |-> n]
    IN
    IF client = NoClient
    THEN raised     \* every branch dereferences client: AttributeError on None
    ELSE IF message.type \in VerifyTypes
    THEN LET device == device_store[client][message.dev] IN
         IF device = "absent"
         THEN done(<<DaemonResponse(message.message_id, message.pan_user,
                                    "m.unknown_device")>>, device_store, 0)
         ELSE LET to == IF message.type = "DeviceVerify"
                        THEN "verified" ELSE "unverified"
              IN done(<<DaemonResponse(message.message_id, clients[client].user,
                                       "m.ok")>>,
                      [device_store EXCEPT ![client][message.dev] = to], 1)
    ELSE IF message.type \in SasTypes
    THEN done(<<>>, device_store, 0)
    ELSE IF io = "ok"
    THEN done(<<DaemonResponse(message.message_id, clients[client].user, "m.ok")>>,
              device_store, 0)
    ELSE IF io = "OSError"
              \/ (io = "EncryptionError" /\ message.type = "ImportKeys")
    THEN done(<<DaemonResponse(message.message_id, clients[client].user,
                               "m.os_error")>>, device_store, 0)
    ELSE raised

\* The outcomes the SDK's export_keys / import_keys can have.
IoOutcomes(message) ==
    IF message.type = "ExportKeys" THEN {"ok", "OSError"}
    ELSE IF message.type = "ImportKeys" THEN {"ok", "OSError", "EncryptionError"}
    ELSE {"ok"}

\* The UI puts a control message on the input queue.
UISend ==
    /\ next_mid <= MaxMsgs
    /\ Len(recv_queue) < MaxQueue
    /\ \E m \in Messages(next_mid) : recv_queue' = Append(recv_queue, m)
    /\ next_mid' = next_mid + 1
    /\ UNCHANGED <<filterVars, sessionVars, decVars, device_store, send_queue,
                   ctl_done, last_ctl>>

\* The control loop takes the next message and runs receive_message on it.
receive_message ==
    /\ recv_queue # <<>>
    /\ LET message == Head(recv_queue) IN
       \E io \in IoOutcomes(message) :
         LET out == ReceiveOutcome(message, io) IN
         /\ recv_queue' = Tail(recv_queue)
         /\ send_queue' = send_queue \o out.emitted
         /\ device_store' = out.store
         /\ ctl_done' = [ctl_done EXCEPT ![message.message_id] =
                            IF out.raised THEN "raised" ELSE "returned"]
         /\ last_ctl' = [msg |-> message,
                         client |-> pan_clients[message.pan_user],
                         device |-> IF /\ pan_clients[message.pan_user] # NoClient
                                       /\ message.type \in VerifyTypes
                                    THEN device_store
                                           [pan_clients[message.pan_user]]
                                           [message.dev]
                                    ELSE "",
                         sdk_verify |-> out.sdk_verify,
                         emitted |-> out.emitted,
                         store_changed |-> out.store # device_store]
    /\ UNCHANGED <<filterVars, sessionVars, decVars, next_mid>>

\* The tables the control loop can find: any subset of the users has a
\* started shadow client, each with some devices in its device store.
InitControl ==
    /\ FilterIdle
    /\ DecryptIdle
    /\ \E S \in SUBSET (1..Len(UserSeq)) :
         /\ pan_clients = [u \in Users |->
                IF \E i \in S : UserSeq[i] = u
                THEN CHOOSE i \in S : UserSeq[i] = u ELSE NoClient]
         /\ clients = [c \in ClientIds |->
                IF c \in S
                THEN [state |-> "started", user |-> UserSeq[c], device |-> c,
                      token |-> <<>>]
                ELSE NoClientObj]
         /\ device_store \in [ClientIds -> [DevKeys -> {"absent", "unverified"}]]
         /\ \A c \in ClientIds \ S : \A k \in DevKeys : device_store[c][k] = "absent"
    /\ SessionRestEmpty
    /\ recv_queue = <<>>
    /\ send_queue = <<>>
    /\ next_mid = 1
    /\ ctl_done = [mid \in 1..MaxMsgs |-> "none"]
    /\ last_ctl = NoCtl

NextControl == UISend \/ receive_message

SpecControl == InitControl /\ [][NextControl]_vars

ResponsesFor(mid) == {i \in DOMAIN send_queue : send_queue[i].message_id = mid}

\* C8: handling a control message never raises, whatever the variant, also
\* when pan_user has no shadow client and when key export / import fails.
C8_NeverRaises ==
    \A mid \in 1..MaxMsgs : ctl_done[mid] # "raised"

\* C9: every control message consumed from the input queue has exactly one
\* DaemonResponse with its message_id on the output queue.
C9_ExactlyOneResponse ==
    \A mid \in 1..MaxMsgs :
        ctl_done[mid] # "none" => Cardinality(ResponsesFor(mid)) = 1

\* The last consumed message was a DeviceVerify / DeviceUnverify whose
\* (user_id, device_id) is not in the acting shadow client's device store.
UnknownDeviceHandled ==
    /\ last_ctl.msg # <<>>
    /\ last_ctl.msg.type \in VerifyTypes
    /\ last_ctl.client # NoClient
    /\ last_ctl.device = "absent"

\* C10: a DeviceVerify / DeviceUnverify for a device that is not in the
\* acting shadow client's device store emits exactly one DaemonResponse, with
\* code m.unknown_device and the message's own message_id and pan_user; the
\* SDK verify / unverify is not invoked and no verification state changes.
C10_UnknownDevice ==
    UnknownDeviceHandled =>
        /\ last_ctl.emitted = <<DaemonResponse(last_ctl.msg.message_id,
                                               last_ctl.msg.pan_user,
                                               "m.unknown_device")>>
        /\ Cardinality(ResponsesFor(last_ctl.msg.message_id)) = 1
        /\ last_ctl.sdk_verify = 0
        /\ ~last_ctl.store_changed

\* C10's case: such a message was handled while another device of the same
\* store was already verified.
C10_Witness ==
    /\ UnknownDeviceHandled
    /\ \E k \in DevKeys : device_store[last_ctl.client][k] = "verified"


ControlIdle ==
    /\ device_store = [c \in ClientIds |-> [k \in DevKeys |-> "absent"]]
    /\ recv_queue = <<>>
    /\ send_queue = <<>>
    /\ next_mid = 1
    /\ ctl_done = [mid \in 1..MaxMsgs |-> "none"]
    /\ last_ctl = NoCtl

SessionEmpty ==
    /\ pan_clients = [u \in Users |-> NoClient]
    /\ clients = [c \in ClientIds |-> NoClientObj]
    /\ SessionRestEmpty

InitFilter ==
    /\ fpc = "input"
    /\ filter_in \in Filters
    /\ filter_out = <<>>
    /\ filter_out2 = <<>>
    /\ TokenIdle
    /\ SessionEmpty
    /\ ControlIdle
    /\ DecryptIdle

Sanitize ==
    /\ fpc = "input"
    /\ fpc' = "once"
    /\ filter_out' = sanitize_filter(filter_in)
    /\ UNCHANGED <<filter_in, filter_out2, tokenVars, sessionVars, ctlVars, decVars>>

SanitizeAgain ==
    /\ fpc = "once"
    /\ fpc' = "twice"
    /\ filter_out2' = sanitize_filter(filter_out)
    /\ UNCHANGED <<filter_in, filter_out, tokenVars, sessionVars, ctlVars, decVars>>

NextFilter == Sanitize \/ SanitizeAgain

SpecFilter == InitFilter /\ [][NextFilter]_vars

\* C6: for every filter F, if F has room.timeline.types then the sanitized
\* filter's types contain "m.room.encrypted", and if F has
\* room.timeline.not_types then the sanitized not_types do not contain it.
C6_EncryptedAlwaysVisible ==
    fpc # "input" =>
        /\ HasTimelineKey(filter_in, "types") =>
               Encrypted \in Range(filter_out.room.timeline.types)
        /\ HasTimelineKey(filter_in, "not_types") =>
               Encrypted \notin Range(filter_out.room.timeline.not_types)

\* C7: sanitize_filter is idempotent: sanitizing a sanitized filter changes
\* nothing.
C7_Idempotent ==
    fpc = "twice" => filter_out2 = filter_out

(***************************************************************************)
(* Session manager: startup restoration, login, start_pan_client.          *)
(***************************************************************************)
ShadowDigits == <<"1", "2", "3", "4", "5", "6", "7", "8", "9">>

\* The access token the homeserver issues to the SDK login that creates the
\* shadow client's device d: fresh, and no downstream token.
ShadowToken(d) == <<"p", ShadowDigits[d]>>

\* keyring.get_password: None (here <<>>) when there is no entry
KeyringGet(u, d) == IF <<u, d>> \in DOMAIN keyring THEN keyring[<<u, d>>] ELSE <<>>

\* start_pan_client without the keyring.set_password call of lines 407-411.
KeyringSet_Skipped(u, d, token) == keyring

\* keyring.set_password
KeyringSet(u, d, token) ==
    [k \in DOMAIN keyring \cup {<<u, d>>} |->
        IF k = <<u, d>> THEN token ELSE keyring[k]]

\* PanStore.load_users: the accounts of the persisted server users
load_users == {a \in accounts : a[1] \in store_users}

\* PanStore.load_clients: the persisted token bindings
load_clients == store_clients

\* The loop of lines 64-91 leaving at the first account without a token
\* (break for the continue of line 73).
Restorable_StopsAtMissing ==
    {a \in load_users :
        \A b \in load_users : b[2] <= a[2] => KeyringGet(b[1], b[2]) # <<>>}

\* lines 64-73: the accounts whose keyring entry is neither missing nor empty
Restorable == {a \in load_users : KeyringGet(a[1], a[2]) # <<>>}

\* The accounts are restored in the order they were created; the k-th
\* restored account gets the k-th PanClient object of the new process.
RestoreRank(a) == Cardinality({b \in Restorable : b[2] <= a[2]})

\* lines 56-91: the tables after construction over the persisted state
attrs_post_init ==
    /\ client_info' = load_clients
    /\ clients' = [c \in ClientIds |->
          IF \E a \in Restorable : RestoreRank(a) = c
          THEN LET a == CHOOSE a \in Restorable : RestoreRank(a) = c
               IN [state |-> "started", user |-> a[1], device |-> a[2],
                   token |-> KeyringGet(a[1], a[2])]
          ELSE NoClientObj]
    /\ pan_clients' = [u \in Users |->
          LET mine == {a \in Restorable : a[1] = u} IN
          IF mine = {} THEN NoClient
          ELSE RestoreRank(CHOOSE a \in mine : \A b \in mine : b[2] <= a[2])]

\* The process ends (at any point) and a new ProxyDaemon is constructed over
\* the same store, SDK store and keyring.
Restart ==
    /\ Cardinality(Restorable) <= MaxClients
    /\ attrs_post_init
    /\ default_session' = "none"
    /\ login_task' = [h \in 1..MaxHandlers |-> LoginIdle]
    /\ http_resp' = Resp("restart", NoReq, FALSE, 0, "", "none", NoReq)
    /\ shut_down' = FALSE
    /\ UNCHANGED <<store_clients, store_users, accounts, keyring, issued, relayed>>
    /\ UNCHANGED <<filterVars, ctlVars, decVars>>

\* lines 415-441: the login handler reads the request body and forwards the
\* request upstream.
login_request(h) ==
    /\ login_task[h].pc = "idle"
    /\ ~shut_down                      \* the server accepts no new request
    /\ \E body \in Bodies :
         IF body = "not_json"
         THEN /\ http_resp' = Resp("login", NoReq, FALSE, 500, "M_NOT_JSON",
                                    "none", NoReq)
              /\ UNCHANGED <<login_task, default_session>>
         ELSE IF body = "json_no_object"
         THEN \* lines 435, 365: body.get of a list or str, AttributeError
              /\ http_resp' = Raised(Resp("login", NoReq, FALSE, 0, "",
                                           "none", NoReq))
              /\ UNCHANGED <<login_task, default_session>>
         ELSE /\ login_task' = [login_task EXCEPT ![h].pc = "upstream"]
              /\ default_session' = "open"         \* forward_request, 282-285
              /\ UNCHANGED http_resp
    /\ UNCHANGED <<pan_clients, clients, client_info, store_clients, store_users,
                   accounts, keyring, issued, relayed>>
    /\ UNCHANGED <<filterVars, ctlVars, decVars, shut_down>>

\* start_pan_client without the store.save_client call of line 380.
StartPanClientTables_NoSave(access_token, user_id) ==
    [client_info |-> [client_info EXCEPT ![access_token] = user_id],
     store_clients |-> store_clients,
     store_users |-> store_users \cup {user_id}]

\* lines 378-381: the token binding is recorded in memory and in the store
StartPanClientTables(access_token, user_id) ==
    [client_info |-> [client_info EXCEPT ![access_token] = user_id],
     store_clients |-> [store_clients EXCEPT ![access_token] = user_id],
     store_users |-> store_users \cup {user_id}]

FreeClients == {c \in ClientIds : clients[c].state = "free"}

\* lines 383-396: start_pan_client up to its await of pan_client.login
start_pan_client(h, access_token, user_id) ==
    LET t == StartPanClientTables(access_token, user_id) IN
    /\ client_info' = t.client_info
    /\ store_clients' = t.store_clients
    /\ store_users' = t.store_users
    /\ IF pan_clients[user_id] # NoClient
       THEN /\ login_task' = [login_task EXCEPT ![h] =
                  [pc |-> "read", user_id |-> user_id,
                   access_token |-> access_token, client |-> NoClient,
                   existing |-> pan_clients[user_id]]]
            /\ UNCHANGED clients
       ELSE /\ FreeClients # {}
            /\ LET c == CHOOSE c \in FreeClients : \A x \in FreeClients : c <= x IN
               /\ clients' = [clients EXCEPT ![c] =
                     [state |-> "created", user |-> user_id, device |-> 0,
                      token |-> <<>>]]
               /\ login_task' = [login_task EXCEPT ![h] =
                     [pc |-> "sdk_login", user_id |-> user_id,
                      access_token |-> access_token, client |-> c,
                      existing |-> NoClient]]

\* login recording the binding of an upstream answer without the test of
\* line 451 for status 200.
login_response_NoStatusTest(h) ==
    /\ login_task[h].pc = "upstream"
    /\ \E user_id \in Users, access_token \in DownTokens :
         LET t == StartPanClientTables(access_token, user_id) IN
         /\ client_info' = t.client_info
         /\ store_clients' = t.store_clients
         /\ store_users' = t.store_users
    /\ login_task' = [login_task EXCEPT ![h].pc = "read"]
    /\ UNCHANGED <<clients, issued, http_resp>>
    /\ UNCHANGED <<pan_clients, accounts, keyring, default_session, relayed>>
    /\ UNCHANGED <<filterVars, ctlVars, decVars, shut_down>>

\* lines 441-459: the upstream answer to the forwarded login arrives.
login_response(h) ==
    /\ login_task[h].pc = "upstream"
    /\ \/ \* ClientConnectionError: 500
          /\ http_resp' = LoginResp(500, "")
          /\ login_task' = [login_task EXCEPT ![h] = LoginIdle]
          /\ UNCHANGED <<clients, client_info, store_clients, store_users, issued>>
       \/ \* not 200, not JSON, or no user_id / access_token: relayed as it is
          /\ login_task' = [login_task EXCEPT ![h].pc = "read"]
          /\ UNCHANGED <<clients, client_info, store_clients, store_users, issued,
                         http_resp>>
       \/ \* 200 with JSON that is a non-empty array or string: line 452,
          \* json_response.get raises AttributeError
          /\ http_resp' = Raised(LoginResp(0, ""))
          /\ login_task' = [login_task EXCEPT ![h] = LoginIdle]
          /\ UNCHANGED <<clients, client_info, store_clients, store_users, issued>>
       \/ \* 200 with user_id and a newly issued access_token
          /\ issued < Len(DownTokenSeq)
          /\ issued' = issued + 1
          /\ \E user_id \in Users :
                start_pan_client(h, DownTokenSeq[issued + 1], user_id)
          /\ UNCHANGED http_resp
    /\ UNCHANGED <<pan_clients, accounts, keyring, default_session, relayed>>
    /\ UNCHANGED <<filterVars, ctlVars, decVars, shut_down>>

\* lines 396-413: pan_client.login returns; on success the client is entered
\* in the table, its token stored in the keyring and its sync loop started.
login_sdk_result(h) ==
    LET c == login_task[h].client
        user_id == login_task[h].user_id
        device_id == Cardinality(accounts) + 1
    IN
    /\ login_task[h].pc = "sdk_login"
    /\ \/ \* no LoginResponse: the client is closed
          /\ clients' = [clients EXCEPT ![c].state = "closed"]
          /\ UNCHANGED <<pan_clients, accounts, keyring>>
       \/ \* LoginResponse with a new device and token
          /\ Cardinality(accounts) < MaxClients
          /\ accounts' = accounts \cup {<<user_id, device_id>>}
          /\ pan_clients' = [pan_clients EXCEPT ![user_id] = c]
          /\ keyring' = KeyringSet(user_id, device_id, ShadowToken(device_id))
          /\ clients' = [clients EXCEPT ![c] =
                [state |-> "started", user |-> user_id, device |-> device_id,
                 token |-> ShadowToken(device_id)]]
    /\ login_task' = [login_task EXCEPT ![h].pc = "read"]
    /\ UNCHANGED <<client_info, store_clients, store_users, default_session,
                   issued, relayed, http_resp>>
    /\ UNCHANGED <<filterVars, ctlVars, decVars, shut_down>>

\* lines 461-465: the upstream response is relayed and the handler returns.
login_return(h) ==
    /\ login_task[h].pc = "read"
    /\ http_resp' = LoginResp(0, "")
    /\ relayed' = IF login_task[h].access_token # <<>>
                  THEN relayed \cup {<<login_task[h].access_token,
                                       login_task[h].user_id>>}
                  ELSE relayed
    /\ login_task' = [login_task EXCEPT ![h] = LoginIdle]
    /\ UNCHANGED <<pan_clients, clients, client_info, store_clients, store_users,
                   accounts, keyring, default_session, issued>>
    /\ UNCHANGED <<filterVars, ctlVars, decVars, shut_down>>

\* lines 682-693: every shadow client of the table is stopped and closed,
\* and the shared client session is closed and forgotten.  Handlers that are
\* in flight go on afterwards.
shutdown ==
    /\ ~shut_down
    /\ clients' = [c \in ClientIds |->
          IF \E u \in Users : pan_clients[u] = c
          THEN [clients[c] EXCEPT !.state = "closed"]
          ELSE clients[c]]
    /\ default_session' = "none"
    /\ shut_down' = TRUE
    /\ UNCHANGED <<pan_clients, client_info, store_clients, store_users, accounts,
                   keyring, login_task, issued, relayed, http_resp>>
    /\ UNCHANGED <<filterVars, ctlVars, decVars>>

Init ==
    /\ FilterIdle
    /\ ControlIdle
    /\ DecryptIdle
    /\ SessionEmpty

Next ==
    \/ Restart
    \/ \E h \in 1..MaxHandlers : login_request(h)
    \/ \E h \in 1..MaxHandlers : login_response(h)
    \/ \E h \in 1..MaxHandlers : login_sdk_result(h)
    \/ \E h \in 1..MaxHandlers : login_return(h)
    \/ shutdown

Spec == Init /\ [][Next]_vars

Started(c) == clients[c].state = "started"

\* C1: at most one shadow client with a started sync loop exists per
\* user_id, and every started shadow client is the one the shadow-client
\* table holds for its user_id.
C1_OneStartedClientPerUser ==
    \A c \in ClientIds : Started(c) => pan_clients[clients[c].user] = c

\* C14: once shutdown has completed, no shadow client started by this
\* process still has a running sync loop, and the shared HTTP client session
\* is closed, whatever logins are in flight or overlapped earlier.
C14_ShutdownStopsAll ==
    shut_down => /\ \A c \in ClientIds : ~Started(c)
                 /\ default_session = "none"

\* The login handlers that found a shadow client for their user_id in the
\* table (lines 383-386) and are about to return.
AliasedLogins ==
    {h \in 1..MaxHandlers :
        login_task[h].pc = "read" /\ login_task[h].existing # NoClient}

\* C18: a login for a user_id that already has a shadow client creates no
\* shadow client, makes no SDK login and writes nothing to the keyring, and
\* afterwards its token and every token recorded earlier for that user_id
\* resolve to that same existing shadow client.
C18_Step ==
    /\ \A h \in 1..MaxHandlers :
          (login_task[h].pc = "upstream" /\ login_task'[h].existing # NoClient) =>
              /\ login_task'[h].pc = "read"
              /\ UNCHANGED <<clients, keyring, accounts, pan_clients>>
    /\ \A h \in AliasedLogins :
          LET U == login_task[h].user_id
              T == login_task[h].access_token IN
          /\ client_info[T] = U
          /\ \A t \in DownTokens :
                client_info[t] = U => pan_clients[client_info[t]] = login_task[h].existing

\* C18: in every step, a login that finds a shadow client for its user_id
\* creates none and writes no keyring entry, and all tokens of that user_id
\* resolve to the client it found.
C18_AliasedToExisting == [][C18_Step]_vars

\* C19: a login attempt that does not succeed upstream (request body not
\* JSON, connection failure, status other than 200, upstream body not JSON
\* or lacking user_id or access_token) leaves client_info, the persistent
\* store, the keyring and the shadow-client table unchanged and starts no
\* shadow client: no step of such a handler changes any of them.
C19_Step ==
    LET Untouched == UNCHANGED <<client_info, store_clients, store_users,
                                 accounts, keyring, pan_clients, clients>> IN
    /\ \A h \in 1..MaxHandlers :
          (/\ login_task'[h] # login_task[h]
           /\ login_task[h].access_token = <<>>
           /\ login_task'[h].access_token = <<>>
           /\ http_resp'.kind # "restart") => Untouched
    /\ (/\ http_resp' # http_resp
        /\ http_resp'.kind = "login"
        /\ login_task' = login_task) => Untouched

\* C19: no step of a login that got no user_id and access_token from
\* upstream changes client_info, the store, the keyring, the table or a
\* shadow client.
C19_FailedLoginChangesNothing == [][C19_Step]_vars

\* C19's case: a login that got no user_id and access_token from upstream
\* is about to return, in a daemon that holds a binding and a shadow client.
C19_Witness ==
    /\ \E h \in 1..MaxHandlers :
          login_task[h].pc = "read" /\ login_task[h].access_token = <<>>
    /\ \E t \in DownTokens : client_info[t] # NoUser
    /\ \E c \in ClientIds : Started(c)

\* C22: whenever no login handler is in flight, every token in client_info
\* is bound to a user_id that has a shadow client in the table, so that no
\* Sync, Messages or Send request carrying a relayed token is answered 401
\* M_UNKNOWN_TOKEN.
C22_RelayedTokenIsKnown ==
    (\A h \in 1..MaxHandlers : login_task[h].pc = "idle") =>
        \A t \in DownTokens :
            client_info[t] # NoUser => pan_clients[client_info[t]] # NoClient

\* C3: the token of every login that returned after an upstream 200 with
\* user_id and access_token is bound to that user_id in client_info and in
\* the persistent store, also in a ProxyDaemon constructed later over the
\* same store.
C3_LoginBindingPersists ==
    \A b \in relayed :
        /\ client_info[b[1]] = b[2]
        /\ store_clients[b[1]] = b[2]

\* C3's case: a login returned and the daemon was constructed anew since.
C3_Witness ==
    /\ http_resp.kind = "restart"
    /\ \E b \in relayed : client_info[b[1]] = b[2]

\* The device_id of the upstream login response that carries access_token:
\* the homeserver creates a device of its own for every login, so it is no
\* device of a shadow client (those are 1..MaxClients here).
DownDevice(access_token) ==
    MaxClients + (CHOOSE i \in 1..Len(DownTokenSeq) : DownTokenSeq[i] = access_token)

\* The login handlers that got an upstream 200 with user_id and access_token
\* for a user without a shadow client, and are about to return.
FreshLogins ==
    {h \in 1..MaxHandlers :
        login_task[h].pc = "read" /\ login_task[h].client # NoClient}

\* C12 as stated: after a login round-trip with an upstream 200 carrying
\* user_id U, access_token T and device_id D for a user that had no shadow
\* client, a new shadow client for U exists, client_info[T] is U, and the
\* keyring entry "U-D-token" holds T.
C12_AsStated ==
    \A h \in FreshLogins :
        LET c == login_task[h].client
            U == login_task[h].user_id
            T == login_task[h].access_token IN
        /\ Started(c) /\ clients[c].user = U
        /\ client_info[T] = U
        /\ KeyringGet(U, DownDevice(T)) = T

\* C12, amended: after such a round-trip client_info[T] is U; the handler
\* has logged a shadow client of its own in through the SDK, and when that
\* login succeeded the shadow client is started for U and the keyring entry
\* "U-D'-token" holds T', where D' and T' are the device_id and access token
\* of the shadow client's own login, not the D and T of the relayed
\* response; when it failed the client is closed and has no keyring entry.
C12_LoginRoundTrip ==
    \A h \in FreshLogins :
        LET c == login_task[h].client
            U == login_task[h].user_id
            T == login_task[h].access_token
            logged_in == clients[c].device # 0 IN
        /\ client_info[T] = U
        /\ clients[c].state \in {"started", "closed"}
        /\ logged_in =>
              /\ Started(c) \/ shut_down
              /\ clients[c].user = U
              /\ KeyringGet(U, clients[c].device) = clients[c].token
              /\ clients[c].token # <<>>
              /\ clients[c].token # T
              /\ clients[c].device # DownDevice(T)
              /\ KeyringGet(U, DownDevice(T)) = <<>>
        /\ ~logged_in =>
              /\ clients[c].state = "closed"
              /\ KeyringGet(U, clients[c].device) = <<>>

\* C12's case: a login for a user without a shadow client has started one
\* and is about to return.
C12_Witness ==
    \E h \in FreshLogins : Started(login_task[h].client)

(***************************************************************************)
(* Request handlers: access-token extraction, the token lookup of Sync,    *)
(* Messages and Send, and what each handler forwards upstream.             *)
(***************************************************************************)
BearerPrefix == <<"B", "e", "a", "r", "e", "r", " ">>
Bearer(token) == BearerPrefix \o token

\* str.strip(chars): drops every leading and trailing character that is in
\* the SET of characters chars.
RECURSIVE LStrip(_, _)
LStrip(s, chars) ==
    IF s # <<>> /\ Head(s) \in chars THEN LStrip(Tail(s), chars) ELSE s

RECURSIVE RStrip(_, _)
RStrip(s, chars) ==
    IF s # <<>> /\ s[Len(s)] \in chars
    THEN RStrip(SubSeq(s, 1, Len(s) - 1), chars) ELSE s

Strip(s, chars) == RStrip(LStrip(s, chars), chars)

\* lines 224-232
get_access_token(request) ==
    IF request.query # <<>> THEN request.query
    ELSE Strip(request.auth, Range(BearerPrefix))

\* The tokens downstream requests carry: the homeserver's, known to the
\* proxy or not.
ReqTokens == DownTokens

Requests ==
    {NoReq}
    \cup {[query |-> t, auth |-> <<>>] : t \in ReqTokens}
    \cup {[query |-> <<>>, auth |-> Bearer(t)] : t \in ReqTokens}
    \cup {[query |-> t, auth |-> Bearer(t)] : t \in ReqTokens}

\* The access token a request carries: the query parameter, else the
\* Authorization header without its "Bearer " prefix.
Carried(request) ==
    IF request.query # <<>> THEN request.query
    ELSE IF Len(request.auth) >= Len(BearerPrefix)
            /\ SubSeq(request.auth, 1, Len(BearerPrefix)) = BearerPrefix
    THEN SubSeq(request.auth, Len(BearerPrefix) + 1, Len(request.auth))
    ELSE request.auth

\* The characters of the header values tried: those of "Bearer " and one
\* that is none of them.
HeaderChars == Range(BearerPrefix) \cup {"X"}

\* Tokens of up to MaxLen characters, and the Authorization header values
\* built from them: none, the bare token, "Bearer " + token, "Bear" + token.
TokenStrings == SeqsUpTo(HeaderChars, MaxLen)

HeaderValues ==
    {<<>>}
    \cup TokenStrings
    \cup {Bearer(t) : t \in TokenStrings}
    \cup {<<"B", "e", "a", "r">> \o t : t \in TokenStrings}

TokenRequests ==
    {[query |-> q, auth |-> a] : q \in SeqsUpTo(HeaderChars, 1), a \in HeaderValues}

InitToken ==
    /\ fpc = "input"
    /\ filter_in = <<>>
    /\ filter_out = <<>>
    /\ filter_out2 = <<>>
    /\ tpc = "input"
    /\ token_req \in TokenRequests
    /\ token_out = <<>>
    /\ SessionEmpty
    /\ ControlIdle
    /\ DecryptIdle

\* lines 215-232: a handler extracts the access token of its request
ExtractToken ==
    /\ tpc = "input"
    /\ tpc' = "done"
    /\ token_out' = get_access_token(token_req)
    /\ UNCHANGED <<fpc, filter_in, filter_out, filter_out2, token_req,
                   sessionVars, ctlVars, decVars>>

NextToken == ExtractToken

SpecToken == InitToken /\ [][NextToken]_vars

\* C21: get_access_token returns the access_token query parameter when it
\* is non-empty, and otherwise the Authorization header value with exactly
\* one leading "Bearer " removed and every other character kept ("" for an
\* absent header).
C21_PrefixRemoved ==
    tpc = "done" => token_out = Carried(token_req)

\* self.client_info[access_token], NoUser for a KeyError
InfoOf(token) ==
    IF token \in DOMAIN client_info THEN client_info[token] ELSE NoUser

Known(request) == InfoOf(Carried(request)) # NoUser

\* lines 527-536 (and 580-589, 619-628): the shadow client of the request,
\* or the error response
Authenticate(request) ==
    LET access_token == get_access_token(request) IN
    IF access_token = <<>>
    THEN [errcode |-> "M_MISSING_TOKEN", client |-> NoClient]
    ELSE IF InfoOf(access_token) = NoUser
            \/ pan_clients[InfoOf(access_token)] = NoClient
    THEN [errcode |-> "M_UNKNOWN_TOKEN", client |-> NoClient]
    ELSE [errcode |-> "", client |-> pan_clients[InfoOf(access_token)]]

\* forward_request rewriting the Authorization header only (no lines 300-301).
Forwarded_HeaderOnly(request, token) ==
    IF token = <<>> THEN request
    ELSE [query |-> request.query,
          auth |-> IF request.auth # <<>> THEN Bearer(token) ELSE <<>>]

\* lines 292-301: the credentials of the request forward_request sends;
\* token is <<>> when the caller passes none.
Forwarded(request, token) ==
    IF token = <<>> THEN request
    ELSE [query |-> IF request.query # <<>> THEN token ELSE <<>>,
          auth |-> IF request.auth # <<>> THEN Bearer(token) ELSE <<>>]

\* What the upstream call of a handler ends with: 0 is a
\* ClientConnectionError, otherwise the status of the upstream response.
UpstreamOutcomes == {0, 200, 403}

\* The response to a forwarded request: 500 on a connection error, otherwise
\* the upstream status.
Relayed(up) == IF up = 0 THEN 500 ELSE up

Reject(kind, request, errcode) ==
    /\ http_resp' = Resp(kind, request, Known(request), 401, errcode, "none", NoReq)
    /\ UNCHANGED default_session

Forward(kind, request, token, up) ==
    /\ http_resp' = Resp(kind, request, Known(request), Relayed(up), "",
                         "forward", Forwarded(request, token))
    /\ default_session' = "open"

TokenHandlers == {"sync", "messages", "send", "filter"}

\* The response of the last Sync, Messages, Send or Filter request has not
\* been written to the downstream connection yet.
ResponsePending == http_resp.kind \in TokenHandlers

\* The response is written to the downstream connection.
respond ==
    /\ ResponsePending
    /\ http_resp' = NoResp
    /\ UNCHANGED <<pan_clients, clients, client_info, store_clients, store_users,
                   accounts, keyring, default_session, login_task, issued, relayed>>
    /\ UNCHANGED <<filterVars, ctlVars, decVars, shut_down>>

HandlerFrame ==
    /\ UNCHANGED <<pan_clients, clients, client_info, store_clients, store_users,
                   accounts, keyring, login_task, issued, relayed>>
    /\ UNCHANGED <<filterVars, ctlVars, decVars, shut_down>>

\* lines 526-577; a 200 is answered with the body the decryption
\* coordinator returns
sync(request) ==
    /\ ~ResponsePending
    /\ LET auth == Authenticate(request) IN
       IF auth.errcode # ""
       THEN Reject("sync", request, auth.errcode)
       ELSE \E up \in UpstreamOutcomes :
              Forward("sync", request, clients[auth.client].token, up)
    /\ HandlerFrame

\* lines 579-616
messages(request) ==
    /\ ~ResponsePending
    /\ LET auth == Authenticate(request) IN
       IF auth.errcode # ""
       THEN Reject("messages", request, auth.errcode)
       ELSE \E up \in UpstreamOutcomes : Forward("messages", request, <<>>, up)
    /\ HandlerFrame

\* lines 618-662; room is what client.rooms holds for the room_id, body
\* whether the request body is JSON
send_message(request) ==
    /\ ~ResponsePending
    /\ LET auth == Authenticate(request) IN
       IF auth.errcode # ""
       THEN Reject("send", request, auth.errcode)
       ELSE \E room \in {"unknown", "plain", "encrypted"}, body \in {"json", "not_json"},
               up \in UpstreamOutcomes \cup {503} :
            IF room = "unknown"
            THEN /\ up # 503
                 /\ http_resp' = SendResp(Resp("send", request, Known(request),
                                      Relayed(up), "", "forward",
                                      Forwarded(request, <<>>)), room, body)
                 /\ default_session' = "open"
            ELSE IF room = "plain"
            THEN /\ up # 503
                 /\ http_resp' = SendResp(Resp("send", request, Known(request),
                                      Relayed(up), "", "forward",
                                      Forwarded(request, clients[auth.client].token)),
                                      room, body)
                 /\ default_session' = "open"
            ELSE IF body = "not_json"
            THEN /\ http_resp' = SendResp(Resp("send", request, Known(request), 400,
                                      "M_NOT_JSON", "none", NoReq), room, body)
                 /\ UNCHANGED default_session
            ELSE \* client.room_send: 500 / 503 on its errors
                 /\ http_resp' = SendResp(Resp("send", request, Known(request),
                                      Relayed(up), "", "room_send", NoReq),
                                      room, body)
                 /\ UNCHANGED default_session
    /\ HandlerFrame

\* lines 664-680
filter(request) ==
    /\ ~ResponsePending
    /\ IF get_access_token(request) = <<>>
       THEN Reject("filter", request, "M_MISSING_TOKEN")
       ELSE \E body \in Bodies, up \in UpstreamOutcomes :
            IF body = "not_json"
            THEN /\ http_resp' = Resp("filter", request, Known(request), 400,
                                      "M_NOT_JSON", "none", NoReq)
                 /\ UNCHANGED default_session
            ELSE IF body = "json_no_object"
            THEN \* lines 675, 237: dict(sync_filter) of [1], "ab" or 5 raises
                 \* TypeError / ValueError
                 /\ http_resp' = Raised(Resp("filter", request, Known(request),
                                             0, "", "none", NoReq))
                 /\ UNCHANGED default_session
            ELSE Forward("filter", request, <<>>, up)
    /\ HandlerFrame

\* Requests arriving at a daemon whose logins do not overlap.
NextHttp ==
    \/ Restart
    \/ login_request(1)
    \/ login_response(1)
    \/ login_sdk_result(1)
    \/ login_return(1)
    \/ \E request \in Requests : sync(request)
    \/ \E request \in Requests : messages(request)
    \/ \E request \in Requests : send_message(request)
    \/ \E request \in Requests : filter(request)
    \/ respond

SpecHttp == Init /\ [][NextHttp]_vars

\* C2: Sync, Messages, Send and Filter answer a request without an access
\* token with 401 M_MISSING_TOKEN and a request whose access token is unknown
\* to the proxy with 401 M_UNKNOWN_TOKEN, and forward nothing upstream.
C2_TokenErrors ==
    http_resp.kind \in TokenHandlers =>
        /\ Carried(http_resp.req) = <<>> =>
              /\ http_resp.status = 401
              /\ http_resp.errcode = "M_MISSING_TOKEN"
              /\ http_resp.via = "none"
        /\ (Carried(http_resp.req) # <<>> /\ ~http_resp.known) =>
              /\ http_resp.status = 401
              /\ http_resp.errcode = "M_UNKNOWN_TOKEN"
              /\ http_resp.via = "none"

\* client.access_token of the shadow client a request resolves to (lines
\* 532-534, 556), <<>> when it resolves to none.
ShadowTokenOf(request) ==
    LET auth == Authenticate(request) IN
    IF auth.client = NoClient THEN <<>> ELSE clients[auth.client].token

\* The request with the token put into every credential carrier it has.
Rewritten(request, token) ==
    [query |-> IF request.query # <<>> THEN token ELSE <<>>,
     auth |-> IF request.auth # <<>> THEN Bearer(token) ELSE <<>>]

\* A Sync, Messages, Send or Filter handler runs in this step.
HandlerStep == http_resp' # http_resp /\ http_resp'.kind \in TokenHandlers

\* What a handler that passed the token lookup sends upstream, for Sync,
\* Messages and Send to an unknown or an unencrypted room; a Send to an
\* encrypted room forwards nothing.
ForwardsRightToken ==
    LET r == http_resp'
        shadow == ShadowTokenOf(r.req) IN
    /\ (r.kind = "sync" /\ r.via # "none") =>
          /\ r.via = "forward"
          /\ shadow # <<>>
          /\ r.sent = Rewritten(r.req, shadow)
          /\ \A t \in DownTokens : r.sent.query # t /\ r.sent.auth # Bearer(t)
    /\ (r.kind = "messages" /\ r.via # "none") =>
          r.via = "forward" /\ r.sent = r.req
    /\ (r.kind = "send" /\ r.room = "unknown") =>
          r.via = "forward" /\ r.sent = r.req
    /\ (r.kind = "send" /\ r.room = "plain") =>
          /\ r.via = "forward"
          /\ shadow # <<>>
          /\ r.sent = Rewritten(r.req, shadow)
    /\ (r.kind = "send" /\ r.room = "encrypted") =>
          r.via # "forward" /\ r.sent = NoReq

\* C11 as stated: each forwarded request carries the token the claim names
\* for its handler, and every Send to a known encrypted room is handed once
\* to client.room_send.
C11_Stated_Step ==
    HandlerStep =>
        /\ ForwardsRightToken
        /\ (http_resp'.kind = "send" /\ http_resp'.room = "encrypted") =>
              http_resp'.via = "room_send"

\* C11 as stated, for every step of a handler: the forwarded request carries
\* the token named for its handler and a Send to an encrypted room always
\* reaches client.room_send.
C11_AsStated == [][C11_Stated_Step]_vars

\* C11, amended: Sync forwards the shadow client's token in every
\* credential carrier present and the downstream token nowhere, Messages and
\* Send to an unknown room forward the downstream token unchanged, Send to
\* a known unencrypted room forwards the shadow client's token, and Send to
\* a known encrypted room is never forwarded: with a JSON body it is handed
\* once to client.room_send, with a body that is not JSON it is answered
\* 400 M_NOT_JSON and reaches neither.
C11_Step ==
    HandlerStep =>
        /\ ForwardsRightToken
        /\ (http_resp'.kind = "send" /\ http_resp'.room = "encrypted") =>
              IF http_resp'.body = "json"
              THEN http_resp'.via = "room_send"
              ELSE /\ http_resp'.via = "none"
                   /\ http_resp'.status = 400
                   /\ http_resp'.errcode = "M_NOT_JSON"

\* C11, amended, for every step of a handler: the forwarded request carries
\* the token named for its handler; a Send to an encrypted room is never
\* forwarded and reaches client.room_send exactly when its body is JSON.
C11_ForwardedToken == [][C11_Step]_vars

\* C11's case: a Sync request carrying its token in both carriers was
\* forwarded with both rewritten.
C11_Witness ==
    /\ http_resp.kind = "sync"
    /\ http_resp.via = "forward"
    /\ http_resp.req.query # <<>>
    /\ http_resp.req.auth # <<>>
    /\ http_resp.sent.query # http_resp.req.query
    /\ http_resp.sent.auth # http_resp.req.auth

\* C13: every request handler ends by returning an HTTP response and never
\* by raising, whatever the downstream request and the upstream outcome.
C13_HandlersNeverRaise == ~http_resp.raised

(***************************************************************************)
(* Decryption coordinator (decrypt_body) of the Sync / Messages handlers.  *)
(***************************************************************************)
\* PanClient.decrypt_sync_body / decrypt_messages_body with
\* ignore_failures=False: EncryptionError unless every event's key is held.
StrictSucceeds(body) == body \subseteq client_keys

\* ... with ignore_failures=True: the events whose key is held are decrypted,
\* the others stay as they are.
LenientPlain(body) == body \cap client_keys

\* The handler's response once decrypt_body has returned plain (lines 566-569).
Answered(call, via, plain) ==
    [call EXCEPT !.pc = "done", !.via = via, !.plain = plain,
                 !.encrypted = call.body \ plain,
                 !.held = IF via = "lenient" THEN client_keys ELSE {},
                 !.status = 200]

\* decrypt_loop that waits for the next "synced" without trying to decrypt.
StrictAttempt_NoRetry(call) ==
    IF call.strict = 0 /\ StrictSucceeds(call.body)
    THEN Answered([call EXCEPT !.strict = @ + 1], "strict", call.body)
    ELSE [call EXCEPT !.pc = "waiting", !.strict = IF @ = 0 THEN 1 ELSE @]

\* lines 504-514: one round of decrypt_loop, a strict decryption that either
\* returns or leaves the loop waiting on client.synced
StrictAttempt(call) ==
    IF StrictSucceeds(call.body)
    THEN Answered([call EXCEPT !.strict = @ + 1], "strict", call.body)
    ELSE [call EXCEPT !.pc = "waiting", !.strict = @ + 1]

\* The except branch of decrypt_body re-raising instead of decrypting.
OnTimeout_Raises(call) ==
    [call EXCEPT !.pc = "done", !.timed_out = TRUE, !.status = 500]

\* lines 521-524: the lenient decryption after asyncio.TimeoutError
OnTimeout(call) ==
    Answered([call EXCEPT !.timed_out = TRUE, !.lenient = @ + 1], "lenient",
             LenientPlain(call.body))

DecryptFrame == UNCHANGED <<filterVars, sessionVars, ctlVars>>

\* lines 497-520: a Sync or Messages handler got a 200 with a JSON body
\* from upstream and calls decrypt_body (with decrypt_sync_body or
\* decrypt_messages_body as decryption_method); decrypt_loop makes its first
\* strict attempt.  The calls are numbered in the order they are made.
decrypt_body(h) ==
    /\ dec_call[h].pc = "idle"
    /\ \A g \in 1..(h - 1) : dec_call[g].pc # "idle"
    /\ \E body \in SUBSET Keys :
         dec_call' = [dec_call EXCEPT ![h] =
             StrictAttempt([NoCall EXCEPT !.body = body])]
    /\ UNCHANGED <<client_keys, edges>>
    /\ DecryptFrame

\* The shadow client completes a sync cycle, in which it may have received
\* keys, and fires "synced": every decrypt_loop waiting on it is woken.
synced ==
    /\ edges < MaxEdges
    /\ edges' = edges + 1
    /\ \E new \in SUBSET (Keys \ client_keys) :
         /\ client_keys' = client_keys \cup new
         /\ dec_call' = [h \in 1..MaxCalls |->
               IF dec_call[h].pc = "waiting"
               THEN [dec_call[h] EXCEPT
                        !.pc = "woken",
                        !.edges_seen = @ + 1,
                        !.key_edge = @ \/ dec_call[h].body \subseteq client_keys']
               ELSE dec_call[h]]
    /\ DecryptFrame

\* decrypt_loop taking the edge away from the other calls it woke, as a
\* waiter on a queue or semaphore would.
decrypt_loop_TakesEdge(h) ==
    /\ dec_call[h].pc = "woken"
    /\ dec_call' = [g \in 1..MaxCalls |->
          IF g = h THEN StrictAttempt(dec_call[h])
          ELSE IF dec_call[g].pc = "woken"
          THEN [dec_call[g] EXCEPT !.pc = "waiting"]
          ELSE dec_call[g]]
    /\ UNCHANGED <<client_keys, edges>>
    /\ DecryptFrame

\* decrypt_loop retrying without `await client.synced.wait()` (line 514).
decrypt_loop_NoWait(h) ==
    /\ dec_call[h].pc \in {"woken", "waiting"}
    /\ dec_call[h].strict <= MaxEdges
    /\ dec_call' = [dec_call EXCEPT ![h] = StrictAttempt(dec_call[h])]
    /\ UNCHANGED <<client_keys, edges>>
    /\ DecryptFrame

\* lines 514-515, 504-510: a woken decrypt_loop retries the strict decryption.
decrypt_loop(h) ==
    /\ dec_call[h].pc = "woken"
    /\ dec_call' = [dec_call EXCEPT ![h] = StrictAttempt(dec_call[h])]
    /\ UNCHANGED <<client_keys, edges>>
    /\ DecryptFrame

\* lines 517-524: decryption_timeout has elapsed, wait_for cancels the
\* waiting decrypt_loop and raises asyncio.TimeoutError.  A decrypt_loop that
\* "synced" has woken runs before the timeout is delivered (its wake-up is
\* ahead of the timer in the event loop's queue), so only a waiting one is
\* timed out.
timeout(h) ==
    /\ dec_call[h].pc = "waiting"
    /\ dec_call' = [dec_call EXCEPT ![h] = OnTimeout(dec_call[h])]
    /\ UNCHANGED <<client_keys, edges>>
    /\ DecryptFrame

\* lines 188-213: keys imported through an ImportKeys control message reach
\* the shadow client without a "synced" edge.
keys_imported ==
    /\ \E new \in SUBSET (Keys \ client_keys) :
         /\ new # {}
         /\ client_keys' = client_keys \cup new
    /\ UNCHANGED <<edges, dec_call>>
    /\ DecryptFrame

InitDecrypt ==
    /\ FilterIdle
    /\ ControlIdle
    /\ SessionEmpty
    /\ client_keys \in SUBSET Keys
    /\ edges = 0
    /\ dec_call = [h \in 1..MaxCalls |-> NoCall]

NextDecrypt ==
    \/ \E h \in 1..MaxCalls : decrypt_body(h)
    \/ synced
    \/ \E h \in 1..MaxCalls : decrypt_loop(h)
    \/ \E h \in 1..MaxCalls : timeout(h)
    \/ keys_imported

SpecDecrypt == InitDecrypt /\ [][NextDecrypt]_vars

\* C4: when decryption_timeout elapses without a successful strict
\* decryption, the coordinator makes exactly one lenient decryption, returns
\* its result with the undecryptable events still encrypted, and the handler
\* answers 200.
C4_TimeoutIsLenient ==
    \A h \in 1..MaxCalls :
        dec_call[h].timed_out =>
            /\ dec_call[h].pc = "done"
            /\ dec_call[h].lenient = 1
            /\ dec_call[h].via = "lenient"
            /\ dec_call[h].plain = dec_call[h].body \cap dec_call[h].held
            /\ dec_call[h].encrypted = dec_call[h].body \ dec_call[h].held
            /\ dec_call[h].status = 200

\* C4's case: a call timed out after a retry had failed, and returned with
\* one event decrypted and one still encrypted.
C4_Witness ==
    \E h \in 1..MaxCalls :
        /\ dec_call[h].timed_out
        /\ dec_call[h].strict >= 2
        /\ dec_call[h].plain # {}
        /\ dec_call[h].encrypted # {}

\* C5: when the first strict decryption fails and the shadow client fires
\* "synced" before the deadline having acquired every missing key, the next
\* strict attempt succeeds and the response is the plaintext of a strict
\* decryption, never of the lenient fallback.
C5_KeyRaceEndsStrict ==
    \A h \in 1..MaxCalls :
        (dec_call[h].key_edge /\ dec_call[h].pc \notin {"woken"}) =>
            /\ dec_call[h].pc = "done"
            /\ dec_call[h].via = "strict"
            /\ dec_call[h].lenient = 0
            /\ ~dec_call[h].timed_out
            /\ dec_call[h].plain = dec_call[h].body
            /\ dec_call[h].encrypted = {}
            /\ dec_call[h].status = 200

\* C5's case: the first strict attempt failed, a "synced" edge brought the
\* missing keys, and the call has returned after its second strict attempt.
C5_Witness ==
    \E h \in 1..MaxCalls :
        /\ dec_call[h].key_edge
        /\ dec_call[h].pc = "done"
        /\ dec_call[h].strict = 2
        /\ dec_call[h].body # {}

\* C15: within one decrypt_body call every strict attempt but the first
\* follows a "synced" edge fired after the previous failed attempt, and every
\* edge fired while the call waits is followed by exactly one further strict
\* attempt: the strict attempts made are one more than the edges the call
\* has seen, less the retry a woken call is about to make.
C15_OneRetryPerEdge ==
    \A h \in 1..MaxCalls :
        dec_call[h].pc # "idle" =>
            /\ dec_call[h].strict =
                  IF dec_call[h].pc = "woken"
                  THEN dec_call[h].edges_seen
                  ELSE dec_call[h].edges_seen + 1
            /\ dec_call[h].edges_seen <= edges

\* C15's case: a call has made a third strict attempt, having seen two
\* edges.
C15_Witness ==
    \E h \in 1..MaxCalls :
        dec_call[h].strict = 3 /\ dec_call[h].edges_seen = 2

\* The decrypt_body calls waiting on client.synced after a failed attempt.
Waiting == {h \in 1..MaxCalls : dec_call[h].pc = "waiting"}

\* C16: a single "synced" edge wakes every decrypt_body call that is waiting
\* after a failed strict attempt, and each woken call makes its own strict
\* retry: none goes back to waiting, or is timed out, without having retried.
C16_Step ==
    /\ edges' # edges =>
          \A h \in Waiting : dec_call'[h].pc = "woken"
    /\ \A h \in 1..MaxCalls :
          (dec_call[h].pc = "woken" /\ dec_call'[h] # dec_call[h]) =>
              /\ dec_call'[h].strict = dec_call[h].strict + 1
              /\ ~dec_call'[h].timed_out

\* C16: in every step, a "synced" edge wakes all waiting decrypt_body calls
\* and a woken call's next move is its own strict retry.
C16_EdgeWakesAll == [][C16_Step]_vars

\* C16's case: two calls waited, one edge fired, and both have returned
\* from their second strict attempt.
C16_Witness ==
    /\ edges = 1
    /\ \A h \in 1..2 :
          /\ dec_call[h].pc = "done"
          /\ dec_call[h].via = "strict"
          /\ dec_call[h].strict = 2
          /\ dec_call[h].edges_seen = 1

(***************************************************************************)
(* Cancellation of a handler that is inside decrypt_body.                  *)
(***************************************************************************)
\* decrypt_body treating the cancellation like its timeout: the lenient
\* decryption is made before the handler ends.
cancel_AsTimeout(h) ==
    /\ dec_call[h].pc \in {"waiting", "woken"}
    /\ dec_call' = [dec_call EXCEPT ![h] =
                       [OnTimeout(dec_call[h]) EXCEPT !.pc = "cancelled"]]
    /\ UNCHANGED <<client_keys, edges>>
    /\ DecryptFrame

\* lines 517-521: the downstream caller disconnects and the handler task is
\* cancelled while decrypt_loop is suspended in client.synced.wait() (or
\* woken and not yet run).  wait_for cancels decrypt_loop and re-raises
\* CancelledError, which `except asyncio.TimeoutError` does not catch.
cancel(h) ==
    /\ dec_call[h].pc \in {"waiting", "woken"}
    /\ dec_call' = [dec_call EXCEPT ![h].pc = "cancelled"]
    /\ UNCHANGED <<client_keys, edges>>
    /\ DecryptFrame

NextCancel ==
    \/ NextDecrypt
    \/ \E h \in 1..MaxCalls : cancel(h)

SpecCancel == InitDecrypt /\ [][NextCancel]_vars

Cancelled == {h \in 1..MaxCalls : dec_call[h].pc = "cancelled"}

\* C17: cancelling a decrypt_body call at its suspension point leaves the
\* shadow client as it was (its keys, its "synced" signal, its entry in the
\* shadow-client table, client_info) and the other calls untouched, no
\* lenient decryption is made for the cancelled call, now or later, and a
\* later "synced" edge still wakes every other waiting call.
C17_Step ==
    /\ \A h \in 1..MaxCalls :
          (dec_call'[h].pc = "cancelled" /\ dec_call[h].pc # "cancelled") =>
              /\ UNCHANGED <<client_keys, edges, pan_clients, clients, client_info>>
              /\ \A g \in 1..MaxCalls \ {h} : dec_call'[g] = dec_call[g]
    /\ \A h \in 1..MaxCalls :
          dec_call'[h].pc = "cancelled" =>
              /\ dec_call'[h].lenient = 0
              /\ dec_call'[h].via = ""
              /\ dec_call'[h].plain = {}
    /\ \A h \in Cancelled : dec_call'[h] = dec_call[h]
    /\ (Cancelled # {} /\ edges' # edges) =>
          \A h \in Waiting : dec_call'[h].pc = "woken"

\* C17: in every step, a cancellation changes nothing but the cancelled
\* call, which never gets a lenient decryption, and edges keep waking the
\* other waiting calls.
C17_CancelSafe == [][C17_Step]_vars

\* C17's case: the first call was cancelled while it waited, the edge that
\* fired afterwards woke the second, which has returned from its retry.
C17_Witness ==
    /\ dec_call[1].pc = "cancelled"
    /\ dec_call[1].edges_seen = 0
    /\ dec_call[MaxCalls].pc = "done"
    /\ dec_call[MaxCalls].edges_seen = 1
    /\ dec_call[MaxCalls].via = "strict"

(***************************************************************************)
(* Startup restoration over any persisted state.                           *)
(***************************************************************************)
\* What earlier processes may have left behind: accounts (every device
\* belongs to one user), the server users of the store, and a keyring in
\* which the entry of an account holds its token, is empty, or is missing.
PersistedAccounts ==
    {acc \in SUBSET (Users \X (1..MaxClients)) :
        \A a, b \in acc : a[2] = b[2] => a = b}

PersistedKeyrings(acc) ==
    UNION {[dom -> {<<>>} \cup {ShadowToken(d) : d \in 1..MaxClients}] :
              dom \in SUBSET acc}

InitRestore ==
    /\ FilterIdle
    /\ ControlIdle
    /\ DecryptIdle
    /\ pan_clients = [u \in Users |-> NoClient]
    /\ clients = [c \in ClientIds |-> NoClientObj]
    /\ client_info = [t \in DownTokens |-> NoUser]
    /\ store_clients = [t \in DownTokens |-> NoUser]
    /\ store_users = Users
    /\ accounts \in PersistedAccounts
    /\ keyring \in {k \in PersistedKeyrings(accounts) :
                       \A a \in DOMAIN k : k[a] \in {<<>>, ShadowToken(a[2])}}
    /\ default_session = "none"
    /\ login_task = [h \in 1..MaxHandlers |-> LoginIdle]
    /\ issued = 0
    /\ relayed = {}
    /\ http_resp = NoResp
    /\ shut_down = FALSE

\* The keyring entry of an account is deleted outside the daemon.
keyring_lost ==
    /\ \E a \in DOMAIN keyring :
         keyring' = [k \in DOMAIN keyring \ {a} |-> keyring[k]]
    /\ UNCHANGED <<pan_clients, clients, client_info, store_clients, store_users,
                   accounts, default_session, login_task, issued, relayed,
                   http_resp, shut_down>>
    /\ UNCHANGED <<filterVars, ctlVars, decVars>>

NextRestore ==
    \/ Restart
    \/ keyring_lost

SpecRestore == InitRestore /\ [][NextRestore]_vars

\* The shadow clients the process holds for a persisted account.
ClientsOf(a) ==
    {c \in ClientIds : /\ clients[c].state # "free"
                       /\ clients[c].user = a[1]
                       /\ clients[c].device = a[2]}

\* C20: after startup, a persisted (user_id, device_id) whose keyring entry
\* is missing or empty has no shadow client, and every one whose entry is
\* non-empty has a started shadow client with that user_id and with the
\* keyring value as access token, whatever the entries of the others are.
C20_Step ==
    (http_resp'.kind = "restart" /\ keyring' = keyring) =>
        \A a \in load_users :
            IF KeyringGet(a[1], a[2]) = <<>>
            THEN ClientsOf(a)' = {}
            ELSE \E c \in ClientsOf(a)' :
                    /\ clients'[c].state = "started"
                    /\ clients'[c].token = KeyringGet(a[1], a[2])

\* C20: every startup restores exactly the persisted accounts that have a
\* non-empty keyring entry, each with its keyring value as access token.
C20_RestoresEveryTokenHolder == [][C20_Step]_vars

\* C20's case: a process restored the later of two accounts although the
\* earlier one has no keyring entry.
C20_Witness ==
    /\ http_resp.kind = "restart"
    /\ \E a, b \in load_users :
          /\ a[2] < b[2]
          /\ KeyringGet(a[1], a[2]) = <<>>
          /\ ClientsOf(a) = {}
          /\ \E c \in ClientsOf(b) : Started(c)

====
